---- MODULE Spec2Model ----
(***************************************************************************)
(* Model of ml/utils/loading.py: Loader.loading and Loader.load_result.    *)
(*                                                                         *)
(* A table (pandas DataFrame / numpy 2-d array) is a sequence of rows, a   *)
(* row is a tuple of NCols numbers.  Numbers are fixed-point, in units of  *)
(* 0.001, so that rounding to 2 decimals is an observable operation.       *)
(* Weights are fixed-point in units of 0.1.  Means and standard            *)
(* deviations are never computed as numbers: a limit pair (lower_lim,      *)
(* upper_lim) is carried as the statistics (count, sum, sum of squares) it *)
(* is computed from and the comparison against it is done exactly.         *)
(* Only the first NCols of the six configured columns are carried.  The    *)
(* images written by the plotting calls are not part of the state; a       *)
(* plotting call either returns or raises.                                 *)
(***************************************************************************)
EXTENDS Integers, Sequences, FiniteSets, TLC

\* ---------------------------------------------------------------- bounds
NCols == 2          \* number of leading columns of the tables that are modelled
MaxRows0 == 2       \* largest x0 table passed by the caller (rows)
MaxRows1 == 4       \* largest x1 table passed by the caller (rows)
MaxFileRows == 2    \* largest table load() reads from a data file (rows)

\* ------------------------------------------------------------ input sets
None == "None"
Folders == {None, "data/"}
Scenarios == {"sherpaVsMG5", "mur", "qsf"}

\* rows the x1 tables are made of: 0.000 everywhere; 0.010 in the first
\* column only; 0.034 everywhere (the only row that is not yet rounded)
Rows1 ==
  { [c \in 1..NCols |-> 0],
    [c \in 1..NCols |-> IF c = 1 THEN 10 ELSE 0],
    [c \in 1..NCols |-> 34] }

\* rows the x0 tables are made of: 0.000 everywhere; 0.034 everywhere
Rows0 ==
  { [c \in 1..NCols |-> 0],
    [c \in 1..NCols |-> 34] }

\* truthWeight values of a row: 0.6 or 1.0
Weights == {6, 10}

SeqsUpTo(S, n) == UNION { [1..k -> S] : k \in 0..n }

\* ---------------------------------------------------- scenario selection
Range(a, b, s) == [i \in 1..((b - a + s - 1) \div s) |-> a + (i - 1) * s]

\* eta bin edges in units of 0.1
etaJ == <<-28, -24, -20, -16, -12, -8, -4, 0, 4, 8, 12, 16, 20, 24, 28>>
etaXWide == [i \in 1..22 |-> (i - 11) * 10]

loading_variables(d) ==
  IF d = "qsf" THEN <<"Njets", "j1pT", "j1eta", "ptmiss", "l1pT", "l1eta">>
  ELSE <<"Njets", "j1pT", "j1eta", "ptmiss", "VpT", "Veta">>

loading_vlabels(d) ==
  IF d = "qsf"
  THEN <<"Number of jets", "Leading jet $\\mathrm{p_{T}}$ [GeV]",
         "Leading jet $\\eta$", "$\\mathrm{p_{T}^{miss}}$ [GeV]",
         "Lepton $\\mathrm{p_{T}}$ [GeV]", "Lepton $\\eta$">>
  ELSE <<"Number of jets", "Leading jet $\\mathrm{p_{T}}$ [GeV]",
         "Leading jet $\\eta$", "$\\mathrm{p_{T}^{miss}}$ [GeV]",
         "V $\\mathrm{p_{T}}$ [GeV]", "V $\\eta$">>

loading_etaX(d) == IF d = "qsf" THEN etaJ ELSE etaXWide

loading_binning(d) ==
  << Range(0, 15, 1), Range(0, 2750, 250), etaJ, Range(0, 2000, 200),
     Range(0, 2000, 200), loading_etaX(d) >>

legend_of(d) ==
  CASE d = "sherpaVsMG5" -> <<"Sherpa", "MG5">>
    [] d = "mur"         -> <<"MUR1", "MUR2">>
    [] d = "qsf"         -> <<"qsfUp", "qsfDown">>

result_variables(d) ==
  IF d = "qsf" THEN <<"Njets", "j1pT", "j1eta", "ptmiss", "l1pT", "l1eta">>
  ELSE <<"Njets", "j1pT", "j1eta", "ptmiss", "VpT", "Veta">>

result_vlabels(d) ==
  IF d = "qsf"
  THEN <<"Number of jets", "Leading jet $\\mathrm{p_{T}}$ [GeV]",
         "Leading jet $\\eta$", "Subleading jet $\\mathrm{p_{T}}$ [GeV]",
         "Subleading jet $\\eta$", "$\\mathrm{p_{T}^{miss}}$ [GeV]",
         "Lepton $\\mathrm{p_{T}}$ [GeV]", "Lepton $\\eta$">>
  ELSE <<"Number of jets", "Leading jet $\\mathrm{p_{T}}$ [GeV]",
         "Leading jet $\\eta$", "$\\mathrm{p_{T}^{miss}}$ [GeV]",
         "V $\\mathrm{p_{T}}$ [GeV]", "V $\\eta$">>

result_etaX(d) == IF d = "qsf" THEN etaJ ELSE etaXWide

result_binning(d) ==
  << Range(0, 15, 1), Range(0, 2750, 250), etaJ, Range(0, 2000, 200),
     Range(0, 2000, 200), result_etaX(d) >>

\* ------------------------------------------------------- array helpers
\* a[:n] of a numpy array
FirstN(t, n) == IF n >= Len(t) THEN t ELSE SubSeq(t, 1, n)

\* a[-n:] of a numpy array; -0 is 0, so n = 0 selects the whole array
LastN(t, n) ==
  IF n = 0 \/ n >= Len(t) THEN t ELSE SubSeq(t, Len(t) - n + 1, Len(t))

\* t.iloc[idx] / t[idx]: the rows of t at the (1-based) positions idx
Take(t, idx) == [k \in 1..Len(idx) |-> t[idx[k]]]

RECURSIVE SumSeq(_)
SumSeq(s) == IF s = <<>> THEN 0 ELSE Head(s) + SumSeq(Tail(s))

Column(t, c) == [k \in 1..Len(t) |-> t[k][c]]
Squares(s) == [k \in 1..Len(s) |-> s[k] * s[k]]

\* (count, sum, sum of squares) of column c of table t: what mean() and
\* std() of that column are computed from
Stats(t, c) ==
  [n |-> Len(t), s |-> SumSeq(Column(t, c)), q |-> SumSeq(Squares(Column(t, c)))]

\* with mean = s/n and std^2 = (n*q - s^2) / (n*(n-1))  (pandas: ddof = 1):
\*   (v - mean)^2 < (3*std)^2  <=>  (n*v - s)^2 * (n-1) < 9*n*(n*q - s^2)
factor == 3
Dev2(v, lim) == (lim.n * v - lim.s) * (lim.n * v - lim.s) * (lim.n - 1)
Lim2(lim) == factor * factor * lim.n * (lim.n * lim.q - lim.s * lim.s)

\* mean() of no row and std() of fewer than two rows are NaN
IsNaN(lim) == lim.n < 2

\* v < mean + std * factor   (every comparison with NaN is False)
BelowUpper(v, lim) ==
  /\ ~IsNaN(lim)
  /\ (lim.n * v - lim.s < 0 \/ Dev2(v, lim) < Lim2(lim))

\* v > mean - std * factor
AboveLower(v, lim) ==
  /\ ~IsNaN(lim)
  /\ (lim.n * v - lim.s > 0 \/ Dev2(v, lim) < Lim2(lim))

\* variant: the comparisons written <= and >=
Mask_closed(v, lim) == ~IsNaN(lim) /\ Dev2(v, lim) <= Lim2(lim)

\* the boolean mask (t[column] < upper_lim) & (t[column] > lower_lim)
Mask(v, lim) == BelowUpper(v, lim) /\ AboveLower(v, lim)

\* t[mask]: the rows of t whose mask is True, in their order
RECURSIVE FilterRows(_, _, _)
FilterRows(t, c, lim) ==
  IF t = <<>> THEN <<>>
  ELSE IF Mask(Head(t)[c], lim)
       THEN <<Head(t)>> \o FilterRows(Tail(t), c, lim)
       ELSE FilterRows(Tail(t), c, lim)

\* variant: the reassignment from x1 is missing
Limits_x0(t0, t1, c) == Stats(t0, c)

\* the statistics upper_lim and lower_lim end up being computed from: both
\* are assigned from x0 and then reassigned from x1
Limits(t0, t1, c) ==
  LET from_x0 == Stats(t0, c)
      from_x1 == Stats(t1, c)
  IN  from_x1

\* round(decimals=2) of one value: to the nearest 0.01, ties to even
Round2(v) ==
  LET r == v % 10
      b == v - r
  IN  IF r < 5 THEN b
      ELSE IF r > 5 THEN b + 10
      ELSE IF (b \div 10) % 2 = 0 THEN b ELSE b + 10

RoundTable(t) == [k \in 1..Len(t) |-> [c \in 1..NCols |-> Round2(t[k][c])]]

\* variant: round(np.sum(w))
IntOfSum_round(w) == (SumSeq(w) + 5) \div 10

\* int(np.sum(w)) of a weight column in units of 0.1: truncation
IntOfSum(w) == SumSeq(w) \div 10

\* ------------------------------------------------ train_test_split
\* rng.permutation(n) of numpy.random.RandomState(42), 0-based as numpy
\* returns it (MT19937 seeded with 42, shuffle of arange(n) from the last
\* position down)
Permutation42(n) ==
  CASE n = 0 -> <<>>
    [] n = 1 -> <<0>>
    [] n = 2 -> <<1, 0>>
    [] n = 3 -> <<0, 1, 2>>
    [] n = 4 -> <<1, 3, 0, 2>>
    [] n = 5 -> <<1, 4, 2, 0, 3>>
    [] n = 6 -> <<0, 1, 5, 2, 4, 3>>
    [] n = 7 -> <<0, 1, 5, 2, 4, 3, 6>>
    [] n = 8 -> <<1, 5, 0, 7, 2, 4, 3, 6>>
    [] n = 9 -> <<7, 1, 5, 0, 8, 2, 4, 3, 6>>
    [] n = 10 -> <<8, 1, 5, 0, 7, 2, 9, 4, 3, 6>>
    [] n = 11 -> <<5, 0, 9, 10, 2, 1, 8, 4, 7, 3, 6>>
    [] n = 12 -> <<10, 9, 0, 8, 5, 2, 1, 11, 4, 7, 3, 6>>

\* n_test = ceil(test_size * n) with test_size = tenths/10 (exact; the
\* floating-point product gives the same value for every n below 15)
NTest(n, tenths) == (tenths * n + 9) \div 10

\* variant: the train slice starts one position early
SplitIdx_overlap(n, tenths) ==
  LET p == Permutation42(n)
      nt == NTest(n, tenths)
  IN  [ test  |-> [k \in 1..nt |-> p[k] + 1],
        train |-> [k \in 1..(n - nt) |-> p[nt + k - 1] + 1] ]

\* one train_test_split(..., test_size=tenths/10, random_state=42) of an
\* array of n rows: the 1-based positions that go to train and to test
\* (ShuffleSplit: test = permutation[:n_test], train = the rest)
SplitIdx(n, tenths) ==
  LET p == Permutation42(n)
      nt == NTest(n, tenths)
  IN  [ test  |-> [k \in 1..nt |-> p[k] + 1],
        train |-> [k \in 1..(n - nt) |-> p[nt + k] + 1] ]

\* train_test_split raises ValueError when the train set would be empty
SplitFails(n, tenths) == n - NTest(n, tenths) <= 0

\* ------------------------------------------------------------- state
VARIABLES
  pc,             \* the statement Loader.loading is at
  error,          \* the exception that ended the call, or None
  folder, do, randomize, preprocessing,      \* arguments of loading
  passed,         \* x0 and x1 were passed by the caller (are not None)
  x0, x1,         \* the two tables; empty until loaded when not passed
  variables, vlabels, binning, legend,       \* the selected configuration
  wx0, wx1,       \* truthWeight columns ('mur' only)
  i0, i1,         \* resampled row positions ('mur' only)
  n_target, X0, X0_test,
  column,         \* position in `for column in variables`
  lim,            \* what upper_lim / lower_lim were last computed from
  X1, x, y,
  idx_train, idx_val, idx_test,   \* rows of x in X_train, X_val, X_test
  files,          \* the .npy files written so far, in order
  r_do, r_variables, r_vlabels, r_binning, r_legend,  \* load_result
  r_status

vars ==
  << pc, error, folder, do, randomize, preprocessing, passed, x0, x1, variables,
     vlabels, binning, legend, wx0, wx1, i0, i1, n_target, X0, X0_test,
     column, lim, X1, x, y, idx_train, idx_val, idx_test, files,
     r_do, r_variables, r_vlabels, r_binning, r_legend, r_status >>

cfgVars == << variables, vlabels, binning, legend >>
murVars == << wx0, wx1, i0, i1 >>
balVars == << n_target, X0, X0_test >>
stackVars == << X1, x, y >>
splitVars == << idx_train, idx_val, idx_test >>
resultVars == << r_do, r_variables, r_vlabels, r_binning, r_legend, r_status >>
argVars == << folder, do, randomize, preprocessing, passed >>

FileNames ==
  << "x0_test.npy", "x0_train.npy", "x1_train.npy", "X_train.npy",
     "x_train.npy", "y_train.npy", "X_test.npy", "X_val.npy", "Y_train.npy",
     "Y_test.npy", "Y_val.npy" >>

\* tables the caller can pass
Tables0 == SeqsUpTo(Rows0, MaxRows0)
Tables1 == SeqsUpTo(Rows1, MaxRows1)

\* x0 tables passed together with randomize=True: all rows equal, so that
\* the 2*n_target draws with replacement all give the same array
Uniform0 == { [k \in 1..n |-> r] : n \in 0..MaxRows0, r \in Rows0 }

\* what load(filename, variables) can return.  The data files are fixed, so
\* only their length varies: every row of the x0 file is 0.034 everywhere,
\* the rows of the x1 file cycle through 0.000, 0.034 and 0.010
FileRow0(k) == [c \in 1..NCols |-> 34]
FileRow1(k) ==
  [c \in 1..NCols |->
     CASE k % 3 = 1 -> 0
       [] k % 3 = 2 -> 34
       [] OTHER -> IF c = 1 THEN 10 ELSE 0]
FileTables0 == { [k \in 1..n |-> FileRow0(k)] : n \in 0..MaxFileRows }
FileTables1 == { [k \in 1..n |-> FileRow1(k)] : n \in 0..MaxFileRows }

\* X_train, X_val, X_test and their labels as arrays
X_train == Take(x, idx_train)
X_val == Take(x, idx_val)
X_test == Take(x, idx_test)
y_train == Take(y, idx_train)
y_val == Take(y, idx_val)
y_test == Take(y, idx_test)

\* upper_lim and lower_lim before the loop assigns them
NoLimits == [n |-> 0, s |-> 0, q |-> 0]

\* the call loading(folder, do=do, x0=x0, x1=x1, randomize=..., ...)
Init ==
  /\ pc = "create_folders"
  /\ error = None
  /\ folder \in Folders
  /\ do \in Scenarios
  /\ randomize \in BOOLEAN
  /\ preprocessing \in BOOLEAN
  /\ passed \in BOOLEAN
  /\ IF passed
     THEN /\ x0 \in (IF randomize THEN Uniform0 ELSE Tables0)
          /\ x1 \in Tables1
     ELSE x0 = <<>> /\ x1 = <<>>
  /\ variables = <<>> /\ vlabels = <<>> /\ binning = <<>> /\ legend = <<>>
  /\ wx0 = <<>> /\ wx1 = <<>> /\ i0 = <<>> /\ i1 = <<>>
  /\ n_target = 0 /\ X0 = <<>> /\ X0_test = <<>>
  /\ column = 0
  /\ lim = NoLimits
  /\ X1 = <<>> /\ x = <<>> /\ y = <<>>
  /\ idx_train = <<>> /\ idx_val = <<>> /\ idx_test = <<>>
  /\ files = <<>>
  /\ r_do = None /\ r_variables = <<>> /\ r_vlabels = <<>>
  /\ r_binning = <<>> /\ r_legend = <<>> /\ r_status = None

Raise(e) == pc' = "failed" /\ error' = e

\* create_missing_folders([folder+do]): None + str is a TypeError
CreateFolders ==
  /\ pc = "create_folders"
  /\ IF folder = None
     THEN Raise("TypeError")
     ELSE \/ pc' = "load" /\ error' = error
          \/ Raise("OSError: makedirs")
  /\ UNCHANGED << argVars, x0, x1, cfgVars, murVars, balVars, column, lim,
                  stackVars, splitVars, files, resultVars >>

\* the scenario's configuration, and the tables when none were passed
LoadSamples ==
  /\ pc = "load"
  /\ variables' = loading_variables(do)
  /\ vlabels' = loading_vlabels(do)
  /\ binning' = loading_binning(do)
  /\ legend' = legend_of(do)
  /\ IF ~passed
     THEN \/ /\ Raise("IOError: load")
             /\ UNCHANGED << x0, x1, murVars >>
          \/ \E t0 \in FileTables0, t1 \in FileTables1 :
               IF do = "mur"
               THEN \E w0 \in [1..Len(t0) -> Weights], w1 \in [1..Len(t1) -> Weights] :
                      /\ wx0' = w0
                      /\ wx1' = w1
                      /\ IF SumSeq(w0) = 0 \/ SumSeq(w1) = 0
                         THEN /\ Raise("ValueError: probabilities do not sum to 1")
                              /\ x0' = t0 /\ x1' = t1
                              /\ UNCHANGED << i0, i1 >>
                         ELSE \E j0 \in [1..IntOfSum(w0) -> 1..Len(t0)],
                                 j1 \in [1..IntOfSum(w1) -> 1..Len(t1)] :
                                /\ i0' = j0
                                /\ i1' = j1
                                /\ x0' = Take(t0, j0)
                                /\ x1' = Take(t1, j1)
                                /\ pc' = "balance" /\ error' = error
               ELSE /\ x0' = t0 /\ x1' = t1
                    /\ pc' = "balance" /\ error' = error
                    /\ UNCHANGED murVars
     ELSE /\ pc' = "balance" /\ error' = error
          /\ UNCHANGED << x0, x1, murVars >>
  /\ UNCHANGED << argVars, balVars, column, lim, stackVars, splitVars, files, resultVars >>

\* t[np.random.choice(range(len(t)), size, replace=True)]: every sequence of
\* size rows of t
Choice(t, size) == [1..size -> { t[k] : k \in 1..Len(t) }]

\* n_target and the X0 / X0_test slices
Balance ==
  /\ pc = "balance"
  /\ n_target' = Len(x1)
  /\ IF randomize
     THEN IF Len(x0) = 0 /\ Len(x1) > 0
          THEN /\ Raise("ValueError: a cannot be empty")
               /\ UNCHANGED << X0, X0_test >>
          ELSE \E randomized \in Choice(x0, 2 * Len(x1)) :
                 /\ X0' = FirstN(randomized, Len(x1))
                 /\ X0_test' = LastN(randomized, Len(x1))
                 /\ pc' = "correlation" /\ error' = error
     ELSE /\ X0' = FirstN(x0, Len(x1))
          /\ X0_test' = LastN(x0, Len(x1))
          /\ pc' = "correlation" /\ error' = error
  /\ UNCHANGED << argVars, x0, x1, cfgVars, murVars, column, lim, stackVars,
                  splitVars, files, resultVars >>

\* if correlation: heatmap of x0.corr(), saved under plots/ (the image
\* itself is not part of the state)
Correlation ==
  /\ pc = "correlation"
  /\ \E correlation \in BOOLEAN :
       IF correlation
       THEN \/ pc' = "preprocess" /\ error' = error
            \/ Raise("FileNotFoundError: plots/")
       ELSE pc' = "preprocess" /\ error' = error
  /\ UNCHANGED << argVars, x0, x1, cfgVars, murVars, balVars, column, lim,
                  stackVars, splitVars, files, resultVars >>

\* one pass of `for column in variables`
PreprocessColumn ==
  /\ pc = "preprocess"
  /\ preprocessing
  /\ column < NCols
  /\ column' = column + 1
  /\ lim' = Limits(x0, x1, column + 1)
  /\ x0' = FilterRows(x0, column + 1, lim')
  /\ x1' = FilterRows(x1, column + 1, lim')
  /\ UNCHANGED << pc, error, argVars, cfgVars, murVars, balVars, stackVars,
                  splitVars, files, resultVars >>

\* x0 = x0.round(decimals=2); x1 = x1.round(decimals=2)
PreprocessRound ==
  /\ pc = "preprocess"
  /\ preprocessing
  /\ column = NCols
  /\ x0' = RoundTable(x0)
  /\ x1' = RoundTable(x1)
  /\ pc' = "stack"
  /\ UNCHANGED << error, argVars, cfgVars, murVars, balVars, column, lim,
                  stackVars, splitVars, files, resultVars >>

PreprocessSkip ==
  /\ pc = "preprocess"
  /\ ~preprocessing
  /\ pc' = "stack"
  /\ UNCHANGED << error, argVars, x0, x1, cfgVars, murVars, balVars, column,
                  lim, stackVars, splitVars, files,
                  resultVars >>

\* variant: the ones start at the middle of the array
Labels_mid(n, k) == [i \in 1..n |-> IF i > n \div 2 THEN 1 ELSE 0]

\* y = np.zeros(n); y[k:] = 1.0
Labels(n, k) == [i \in 1..n |-> IF i > k THEN 1 ELSE 0]

\* variant: the three class arrays are saved as soon as they exist
Stack_early_save ==
  /\ pc = "stack"
  /\ X1' = x1
  /\ x' = X0 \o x1
  /\ y' = Labels(Len(X0 \o x1), Len(X0))
  /\ files' = SubSeq(FileNames, 1, 3)
  /\ pc' = "split"
  /\ UNCHANGED << error, argVars, x0, x1, cfgVars, murVars, balVars, column,
                  lim, splitVars, resultVars >>

\* X1 = x1.to_numpy(); x = vstack([X0, X1]); y
Stack ==
  /\ pc = "stack"
  /\ X1' = x1
  /\ x' = X0 \o x1
  /\ y' = Labels(Len(X0 \o x1), Len(X0))
  /\ pc' = "split"
  /\ UNCHANGED << error, argVars, x0, x1, cfgVars, murVars, balVars, column,
                  lim, splitVars, files, resultVars >>

\* the two train_test_split calls
Split ==
  /\ pc = "split"
  /\ LET n == Len(x)
         first == SplitIdx(n, 4)
         n1 == Len(first.train)
         second == SplitIdx(n1, 5)
     IN  IF SplitFails(n, 4) \/ SplitFails(n1, 5)
         THEN /\ Raise("ValueError: train set will be empty")
              /\ UNCHANGED splitVars
         ELSE /\ idx_test' = first.test
              /\ idx_val' = Take(first.train, second.test)
              /\ idx_train' = Take(first.train, second.train)
              /\ pc' = "save" /\ error' = error
  /\ UNCHANGED << argVars, x0, x1, cfgVars, murVars, balVars, column, lim,
                  stackVars, files, resultVars >>

\* if folder is not None: eleven np.save calls, any of which may raise
Save ==
  /\ pc = "save"
  /\ IF folder # None
     THEN \E k \in 0..Len(FileNames) :
            /\ files' = SubSeq(FileNames, 1, k)
            /\ IF k = Len(FileNames)
               THEN pc' = "plot" /\ error' = error
               ELSE Raise("OSError: save")
     ELSE /\ files' = files
          /\ pc' = "plot" /\ error' = error
  /\ UNCHANGED << argVars, x0, x1, cfgVars, murVars, balVars, column, lim,
                  stackVars, splitVars, resultVars >>

\* if plot: draw_unweighted_distributions(...) (the images are not part of
\* the state); return x, y
Plot ==
  /\ pc = "plot"
  /\ \E plot \in BOOLEAN :
       IF plot
       THEN \/ pc' = "done" /\ error' = error
            \/ Raise("Exception: plot")
       ELSE pc' = "done" /\ error' = error
  /\ UNCHANGED << argVars, x0, x1, cfgVars, murVars, balVars, column, lim,
                  stackVars, splitVars, files, resultVars >>

\* Loader.load_result(x0, x1, weights, label, do): its configuration, then
\* load_and_check and the two plotting calls
LoadResult ==
  /\ pc = "done"
  /\ r_status = None
  /\ \E d \in Scenarios :
       /\ r_do' = d
       /\ r_variables' = result_variables(d)
       /\ r_vlabels' = result_vlabels(d)
       /\ r_binning' = result_binning(d)
       /\ r_legend' = legend_of(d)
  /\ r_status' = "done"
  /\ UNCHANGED << pc, error, argVars, x0, x1, cfgVars, murVars, balVars,
                  column, lim, stackVars, splitVars, files >>

Next ==
  \/ CreateFolders
  \/ LoadSamples
  \/ Balance
  \/ Correlation
  \/ PreprocessColumn
  \/ PreprocessRound
  \/ PreprocessSkip
  \/ Stack
  \/ Split
  \/ Save
  \/ Plot
  \/ LoadResult

Spec == Init /\ [][Next]_vars

\* ------------------------------------------------------------ properties
Returned == pc = "done"
IsRounded(v) == v % 10 = 0
TableRounded(t) == \A k \in 1..Len(t) : \A c \in 1..NCols : IsRounded(t[k][c])
SeqRange(q) == { q[k] : k \in 1..Len(q) }
Injective(q) == \A a, b \in 1..Len(q) : q[a] = q[b] => a = b
IsPrefix(a, b) == Len(a) <= Len(b) /\ SubSeq(b, 1, Len(a)) = a

\* the split has succeeded (its test part is never empty)
SplitDone == idx_test # <<>>

\* value strictly between / within the limits computed from statistics st
InOpen(v, st) ==
  /\ st.n >= 2
  /\ (st.n * v - st.s) * (st.n * v - st.s) * (st.n - 1)
       < 9 * st.n * (st.n * st.q - st.s * st.s)
InClosed(v, st) ==
  /\ st.n >= 2
  /\ (st.n * v - st.s) * (st.n * v - st.s) * (st.n - 1)
       <= 9 * st.n * (st.n * st.q - st.s * st.s)

KeepOpen(t, c, st) ==
  LET Test(r) == InOpen(r[c], st) IN SelectSeq(t, Test)
KeepClosed(t, c, st) ==
  LET Test(r) == InClosed(r[c], st) IN SelectSeq(t, Test)

\* a pass of the preprocessing loop is being taken
ColumnStep == pc = "preprocess" /\ column' = column + 1

\* C1: the returned combined array has 2 * n_target rows and the returned
\* labels are n_target zeros followed by n_target ones, whatever the flags
\* (stated for the calls in which x0 could supply the n_target rows of
\* X0-train, the others being degenerate input)
C1_TwiceTarget ==
  (Returned /\ Len(X0) = n_target) =>
    /\ Len(x) = 2 * n_target
    /\ Len(y) = Len(x)
    /\ \A i \in 1..Len(y) : y[i] = (IF i <= n_target THEN 0 ELSE 1)

\* C2: a call without a destination path (folder = None) is not stopped by
\* the missing path and writes no array file
C2_NoFolderCompletes ==
  folder = None => (error # "TypeError" /\ files = <<>>)

\* C3: with preprocessing, every value of the returned x and of the X0-train,
\* X0-test and X1 arrays is rounded to 2 decimals
C3_AllRounded ==
  (Returned /\ preprocessing) =>
    /\ TableRounded(x)
    /\ TableRounded(X0)
    /\ TableRounded(X0_test)
    /\ TableRounded(X1)

\* C4: train, validation and test are pairwise disjoint sets of rows of x
\* that cover x; their sizes sum to the size of x and depend on it only
\* (test = ceil(0.4 n), validation = ceil(0.5 (n - test)))
C4_Partition ==
  SplitDone =>
    LET n == Len(x)
        nt == (4 * n + 9) \div 10
        nv == (5 * (n - nt) + 9) \div 10
    IN  /\ Injective(idx_train) /\ Injective(idx_val) /\ Injective(idx_test)
        /\ SeqRange(idx_train) \cap SeqRange(idx_val) = {}
        /\ SeqRange(idx_train) \cap SeqRange(idx_test) = {}
        /\ SeqRange(idx_val) \cap SeqRange(idx_test) = {}
        /\ SeqRange(idx_train) \cup SeqRange(idx_val) \cup SeqRange(idx_test)
             = 1..n
        /\ Len(X_train) + Len(X_val) + Len(X_test) = n
        /\ Len(X_test) = nt
        /\ Len(X_val) = nv
        /\ Len(X_train) = n - nt - nv
        /\ Len(y_train) = Len(X_train)
        /\ Len(y_val) = Len(X_val)
        /\ Len(y_test) = Len(X_test)

C4_Witness ==
  /\ Returned
  /\ Len(idx_train) >= 1 /\ Len(idx_val) >= 2 /\ Len(idx_test) >= 3

\* C5: on return y has as many rows as x, and y[i] is 0 exactly for the rows
\* of x that are the rows of X0-train and 1 exactly for the rows of X1
C5_LabelsFollowOrigin ==
  Returned =>
    /\ Len(y) = Len(x)
    /\ Len(x) = Len(X0) + Len(X1)
    /\ \A i \in 1..Len(x) :
         IF i <= Len(X0)
         THEN x[i] = X0[i] /\ y[i] = 0
         ELSE x[i] = X1[i - Len(X0)] /\ y[i] = 1

C5_Witness ==
  /\ Returned
  /\ Len(X0) >= 1 /\ Len(X1) >= 1
  /\ Len(X0) # Len(X1)

\* the 'mur' resampling has been done
Resampled ==
  /\ do = "mur" /\ ~passed
  /\ pc \notin {"create_folders", "load"}
  /\ error \notin {"TypeError", "OSError: makedirs", "IOError: load",
                   "ValueError: probabilities do not sum to 1"}

ValidIndices(idx, n) == \A k \in 1..Len(idx) : idx[k] \in 1..n

\* C6 as stated: the number of rows drawn for each table is the sum of its
\* weight column rounded to the nearest integer, and every index is valid
C6_RoundedCount ==
  Resampled =>
    /\ 10 * Len(i0) - 5 <= SumSeq(wx0) /\ SumSeq(wx0) <= 10 * Len(i0) + 5
    /\ 10 * Len(i1) - 5 <= SumSeq(wx1) /\ SumSeq(wx1) <= 10 * Len(i1) + 5
    /\ ValidIndices(i0, Len(wx0))
    /\ ValidIndices(i1, Len(wx1))

\* C6 amended: the number of rows drawn for each table is the integer part
\* of the sum of its weight column (the fraction is dropped), and every
\* index is valid
C6_TruncatedCount ==
  Resampled =>
    /\ 10 * Len(i0) <= SumSeq(wx0) /\ SumSeq(wx0) < 10 * (Len(i0) + 1)
    /\ 10 * Len(i1) <= SumSeq(wx1) /\ SumSeq(wx1) < 10 * (Len(i1) + 1)
    /\ ValidIndices(i0, Len(wx0))
    /\ ValidIndices(i1, Len(wx1))

C6_Witness ==
  /\ Resampled
  /\ SumSeq(wx0) % 10 # 0
  /\ SumSeq(wx1) % 10 # 0
  /\ Len(i0) >= 1 /\ Len(i1) >= 1

\* C7 as stated: in a pass of the loop each table keeps exactly the rows
\* whose value lies in the closed interval [lower_lim, upper_lim], in order
C7_ClosedInterval ==
  [][ ColumnStep =>
        /\ x0' = KeepClosed(x0, column', lim')
        /\ x1' = KeepClosed(x1, column', lim')
        /\ Len(x0') <= Len(x0) /\ Len(x1') <= Len(x1) ]_vars

\* C7 amended: each table keeps exactly the rows whose value lies strictly
\* between lower_lim and upper_lim, in order; a row equal to a limit is
\* dropped, so a column with zero standard deviation drops every row
C7_OpenInterval ==
  [][ ColumnStep =>
        /\ x0' = KeepOpen(x0, column', lim')
        /\ x1' = KeepOpen(x1, column', lim')
        /\ Len(x0') <= Len(x0) /\ Len(x1') <= Len(x1)
        /\ (lim'.n * lim'.q = lim'.s * lim'.s) => (x0' = <<>> /\ x1' = <<>>) ]_vars

\* a column of zero standard deviation (two or more equal values) has just
\* emptied a table that had rows
C7_Witness ==
  /\ pc = "preprocess" /\ column = 1
  /\ lim.n >= 2 /\ lim.n * lim.q = lim.s * lim.s
  /\ x1 = <<>> /\ n_target >= 2

\* C8: both operations select one label and one bin-edge sequence per
\* variable, and the same variables and labels for the same tag
C8_ConfigAgree ==
  /\ variables # <<>> =>
       (Len(vlabels) = Len(variables) /\ Len(binning) = Len(variables))
  /\ r_status = "done" =>
       /\ Len(r_vlabels) = Len(r_variables)
       /\ Len(r_binning) = Len(r_variables)
       /\ r_do = do => (r_variables = variables /\ r_vlabels = vlabels)

BeforeSave ==
  \/ pc \in {"create_folders", "load", "balance", "correlation", "preprocess",
             "stack", "split", "save"}
  \/ /\ pc = "failed"
     /\ error \in {"TypeError", "OSError: makedirs", "IOError: load",
                   "ValueError: probabilities do not sum to 1",
                   "ValueError: a cannot be empty",
                   "FileNotFoundError: plots/",
                   "ValueError: train set will be empty"}

\* C9: no array file exists until balancing, preprocessing, stacking and
\* both splits have succeeded; all eleven exist before plotting starts; a
\* failed plot or a failed write leaves what was written
C9_FilesAfterSplit ==
  /\ [](BeforeSave => files = <<>>)
  /\ [](files # <<>> => (SplitDone /\ Len(y) = Len(x) /\ IsPrefix(files, FileNames)))
  /\ []((error = "Exception: plot" \/ pc \in {"plot", "done"})
          => files = FileNames)
  /\ []((pc = "failed" /\ error = "OSError: save") => Len(files) < Len(FileNames))
  /\ [][IsPrefix(files, files')]_vars

C9_Witness ==
  /\ pc = "failed" /\ error = "Exception: plot"
  /\ files = FileNames

\* C10: in a pass of the loop the limits applied to both tables are those of
\* the column of the current x1 (x1 as left by the passes before), not x0's
C10_LimitsFromX1 ==
  [][ ColumnStep =>
        /\ lim' = Stats(x1, column')
        /\ x0' = KeepOpen(x0, column', Stats(x1, column'))
        /\ x1' = KeepOpen(x1, column', Stats(x1, column')) ]_vars

\* after the last pass: x1 kept rows, x0 kept rows, and the limits last used
\* are not those x0's column gives
C10_Witness ==
  /\ pc = "preprocess" /\ column = NCols
  /\ Len(x1) >= 2 /\ x0 # <<>>
  /\ lim = Stats(x1, NCols)
  /\ lim # Stats(x0, NCols)

====
